---- MODULE Spec2Model ----
(***************************************************************************)
(* The wordle bot of slurk-bots (wordle/lib/wordle_bot.py): the per-room   *)
(* dictionaries of WordleBot, its socket.io event handlers and the         *)
(* threading.Timer callbacks (round timeout, departure timeout).           *)
(*                                                                         *)
(* Every handler is one action.  The dictionaries keyed by room id are     *)
(* functions whose DOMAIN is the set of keys present.  A handler that      *)
(* raises stops where the exception is raised and keeps the mutations it   *)
(* made before.  `out` is the sequence of outgoing effects (sio.emit and   *)
(* requests.* calls) of the handler that ran last, and `event` is what     *)
(* that handler was called with.  `sleeping` holds the handlers and Timer   *)
(* threads that are inside a sleep() call, where the handlers are taken in *)
(* the pieces between their sleep() calls.                                 *)
(***************************************************************************)
EXTENDS Integers, Sequences, FiniteSets, Bags, TLC

VARIABLES images_per_room, players_per_room, last_message_from,
          guesses_per_room, guesses_history, points_per_room,
          timers_per_room, timer_threads, created, out, event, sleeping

vars == <<images_per_room, players_per_room, last_message_from,
          guesses_per_room, guesses_history, points_per_room,
          timers_per_room, timer_threads, created, out, event, sleeping>>

----------------------------------------------------------------------------
(* Bounds of the model *)

\* Timer objects that are started and have neither fired nor been cancelled
MaxTimers == 3
\* cap of a player's msg_n counter
MaxMsg == 1
\* cap of the length of a room's guess history
MaxHist == 1
\* cap of the length of a room's guess history where a rejoin replays it
MaxReplay == 2

(* Program constants *)

\* ImageData(DATA_PATH, 3, ...): items per room
NItems == 3

Rooms == {1}
\* the two users of a task room, and a user that is on no roster
PlayerIds == {1, 2}
Outsider == 3
\* self.user
BotId == 0
UserIds == PlayerIds \cup {Outsider, BotId}
None == 0

ab == <<"a", "b">>
cd == <<"c", "d">>
ef == <<"e", "f">>
xyz == <<"x", "y", "z">>
qqq == <<"q", "q", "q">>
blank == <<" ">>

\* self.wordlist
wordlist == {ab, cd, ef, xyz}
\* the `remaining` values a client may send: one that leaves further
\* attempts, the last attempt, and a value that is no key of the point table
RemainingInputs == {0, 1, 4}

\* rows of the three pair files: (word, image)
EasyPairs == {<<ab, "img_ab">>}
IdealPairs == {<<cd, "img_cd">>}
DifficultPairs == {<<ab, "img_ab">>}

\* data["users"] of a new_task_room event: a roster that is not sorted by id
Rosters == {<<2, 1>>}
\* the users whose join and leave events are followed: the second player of
\* the roster and the user that is on no roster
StatusUsers == {1, Outsider}
\* the senders of chat messages: the second player of the roster and the bot
TextSenders == {1, BotId}

\* self.point_system
point_system == (6 :> 100) @@ (5 :> 50) @@ (4 :> 25) @@ (3 :> 10) @@ (2 :> 5) @@ (1 :> 1)

----------------------------------------------------------------------------
(* Helpers for dictionaries *)

\* d[k] = v
Put(d, k, v) == [x \in DOMAIN d \cup {k} |-> IF x = k THEN v ELSE d[x]]
\* d.pop(k) when k is present, nothing otherwise
\* pop that empties the dictionary
pop_every_key(d, k) == <<>>

Pop(d, k) == [x \in DOMAIN d \ {k} |-> d[x]]
EmptyDict == <<>>

\* str.strip() on a word given as a sequence of characters
RECURSIVE lstrip(_)
lstrip(w) == IF w # <<>> /\ Head(w) = " " THEN lstrip(Tail(w)) ELSE w
RECURSIVE rstrip(_)
rstrip(w) == IF w # <<>> /\ w[Len(w)] = " " THEN rstrip(SubSeq(w, 1, Len(w) - 1)) ELSE w
strip(w) == rstrip(lstrip(w))

----------------------------------------------------------------------------
(* threading.Timer objects *)
(* A Timer object is a record.  A RoomTimers object holds the Timer objects *)
(* it refers to; timer_threads is the bag of started Timer objects that no  *)
(* RoomTimers object refers to any more and that still run as threads.      *)

\* round_timer = None
NoTimer == [kind |-> "none", room |-> None, user |-> None, round |-> None, live |-> FALSE]

\* Timer(interval, function, args=[room_id]).start(); the record keeps the
\* callback (kind), its argument (room), and the context the Timer was
\* constructed in: the user that left (departure timer) or the number of
\* items left (round timer)
StartTimer(kind, room, user, round) ==
    [kind |-> kind, room |-> room, user |-> user, round |-> round, live |-> TRUE]

\* Timer.cancel(): nothing when the timer has fired or was cancelled before
CancelTimer(t) == [t EXCEPT !.live = FALSE]

\* the Timer objects a RoomTimers object refers to
Referenced(rt) == {rt.round_timer} \cup {rt.left_room[u] : u \in DOMAIN rt.left_room}
LiveReferenced(s) == UNION {{t \in Referenced(s.rtimers[r]) : t.live} : r \in DOMAIN s.rtimers}
LiveTimers(s) == LiveReferenced(s) \cup BagToSet(s.threads)
LiveCount(s) == Cardinality(LiveReferenced(s)) + BagCardinality(s.threads)

\* a reference to Timer t is dropped: a started timer keeps running
Unreference(threads, t) == IF t.live THEN threads (+) SetToBag({t}) ELSE threads

----------------------------------------------------------------------------
(* The state a handler works on, as one record *)

Cur == [images |-> images_per_room, players |-> players_per_room,
        lastmsg |-> last_message_from, guesses |-> guesses_per_room,
        history |-> guesses_history, points |-> points_per_room,
        rtimers |-> timers_per_room, threads |-> timer_threads,
        created |-> created, out |-> <<>>, sleeping |-> sleeping]

\* the handler's result becomes the next state; a result that needs more
\* than the bounds of the model allow is not taken
CommitWithin(s, e, maxhist) ==
    /\ LiveCount(s) <= MaxTimers
    /\ \A r \in DOMAIN s.history : Len(s.history[r]) <= maxhist
    /\ \A r \in DOMAIN s.players : \A i \in DOMAIN s.players[r] : s.players[r][i].msg_n <= MaxMsg
    /\ images_per_room' = s.images
    /\ players_per_room' = s.players
    /\ last_message_from' = s.lastmsg
    /\ guesses_per_room' = s.guesses
    /\ guesses_history' = s.history
    /\ points_per_room' = s.points
    /\ timers_per_room' = s.rtimers
    /\ timer_threads' = s.threads
    /\ created' = s.created
    /\ out' = s.out
    /\ event' = e
    /\ sleeping' = s.sleeping

Commit(s, e) == CommitWithin(s, e, MaxHist)

\* a command payload that is no command
NoCommand == [shape |-> "none", guess |-> <<>>, remaining |-> None]
\* what a handler is called with: the `data` of a socket.io event (room,
\* user, status type, command) or the Timer whose callback runs
Event(name, room, user, type, cmd, timer) ==
    [name |-> name, room |-> room, user |-> user, type |-> type, cmd |-> cmd, timer |-> timer]
NoEvent == Event("none", None, None, "", NoCommand, NoTimer)

\* an outgoing effect: kind, room, receiver (None: the whole room), payload
Effect(kind, room, to, a, b) == [kind |-> kind, room |-> room, to |-> to, a |-> a, b |-> b]
Emit(s, e) == [s EXCEPT !.out = Append(@, e)]

----------------------------------------------------------------------------
(* WordleBot methods *)

\* sorted(players, key=lambda x: x["id"])
RECURSIVE insert_by_id(_, _)
insert_by_id(usr, seq) ==
    IF seq = <<>> THEN <<usr>>
    ELSE IF Head(seq).id <= usr.id THEN <<Head(seq)>> \o insert_by_id(usr, Tail(seq))
    ELSE <<usr>> \o seq
RECURSIVE sorted_by_id(_)
sorted_by_id(seq) ==
    IF seq = <<>> THEN <<>>
    ELSE insert_by_id(seq[Len(seq)], sorted_by_id(SubSeq(seq, 1, Len(seq) - 1)))

\* the image patches of show_item, one per user in the given order
RECURSIVE image_patches(_, _, _)
image_patches(room, users, image) ==
    IF users = <<>> THEN <<>>
    ELSE <<Effect("patch_image", room, Head(users).id, image, None)>>
         \o image_patches(room, Tail(users), image)

show_item(s, room) ==
    LET users == sorted_by_id(s.players[room])
    IN IF s.images[room] # <<>>
       THEN LET image == s.images[room][1][2]
            IN [s EXCEPT !.out = @ \o image_patches(room, users, image)
                                   \o <<Effect("patch_title", room, None, None, None)>>]
       ELSE s

\* the membership removals of room_to_read_only, one per user of the roster
RECURSIVE remove_users(_, _)
remove_users(room, users) ==
    IF users = <<>> THEN <<>>
    ELSE <<Effect("remove_user", room, Head(users).id, None, None)>>
         \o remove_users(room, Tail(users))

\* room_to_read_only that forgets the roster without removing its users
room_to_read_only_without_removal(s, room) ==
    [s EXCEPT !.out = @ \o <<Effect("patch_readonly", room, None, None, None),
                              Effect("patch_placeholder", room, None, None, None)>>,
              !.players = Pop(@, room)]

room_to_read_only(s, room) ==
    LET s1 == [s EXCEPT !.out = @ \o <<Effect("patch_readonly", room, None, None, None),
                                       Effect("patch_placeholder", room, None, None, None)>>]
    IN IF room \in DOMAIN s1.players
       THEN [s1 EXCEPT !.out = @ \o remove_users(room, s1.players[room]),
                       !.players = Pop(@, room)]
       ELSE s1

\* close_game that leaves a score of the room behind
close_game_keeps_score(s, room) ==
    LET s1 == room_to_read_only(Emit(s, Effect("text_closing", room, None, None, None)), room)
    IN [s1 EXCEPT !.images = Pop(@, room),
                  !.lastmsg = Pop(@, room),
                  !.guesses = Pop(@, room),
                  !.history = Pop(@, room),
                  !.points = Put(@, room, IF room \in DOMAIN @ THEN @[room] + 1 ELSE 0),
                  !.rtimers = Pop(@, room),
                  !.threads = IF room \in DOMAIN s1.rtimers
                              THEN @ (+) SetToBag({t \in Referenced(s1.rtimers[room]) : t.live})
                              ELSE @]

close_game(s, room) ==
    LET s1 == room_to_read_only(Emit(s, Effect("text_closing", room, None, None, None)), room)
    IN [s1 EXCEPT !.images = Pop(@, room),
                  !.lastmsg = Pop(@, room),
                  !.guesses = Pop(@, room),
                  !.history = Pop(@, room),
                  !.points = Pop(@, room),
                  !.rtimers = Pop(@, room),
                  !.threads = IF room \in DOMAIN s1.rtimers
                              THEN @ (+) SetToBag({t \in Referenced(s1.rtimers[room]) : t.live})
                              ELSE @]

\* reset_players that keeps the message counters
reset_players_status_only(players) ==
    [i \in DOMAIN players |-> [players[i] EXCEPT !.status = "ready"]]

\* for usr in players: usr["status"] = "ready"; usr["msg_n"] = 0
reset_players(players) ==
    [i \in DOMAIN players |-> [players[i] EXCEPT !.status = "ready", !.msg_n = 0]]

\* start_round_timer that constructs the Timer and does not start it
start_round_timer_unstarted(s, room) ==
    LET old == s.rtimers[room].round_timer
        new == CancelTimer(StartTimer("round", room, None, Len(s.images[room])))
    IN [s EXCEPT !.rtimers[room].round_timer = new,
                 !.threads = Unreference(@, old)]

\* round_timer = Timer(TIME_ROUND * 60, self.time_out_round, args=[room_id]); start()
start_round_timer(s, room) ==
    LET old == s.rtimers[room].round_timer
        new == StartTimer("round", room, None, Len(s.images[room]))
    IN [s EXCEPT !.rtimers[room].round_timer = new,
                 !.threads = Unreference(@, old)]

\* clear_round that forgets the pending submissions
clear_round_history_only(s, room) == [s EXCEPT !.history = Put(@, room, <<>>)]

\* guesses_history[room_id] = list(); guesses_per_room[room_id] = dict()
clear_round(s, room) ==
    [s EXCEPT !.history = Put(@, room, <<>>),
              !.guesses = Put(@, room, EmptyDict)]

next_round(s, room) ==
    IF room \notin DOMAIN s.images \/ s.images[room] = <<>>
    THEN s  \* KeyError / IndexError of images_per_room[room_id].pop(0)
    ELSE
    LET s1 == clear_round([s EXCEPT !.images[room] = Tail(@)], room)
        curr_usr == s1.players[room][1]
        other_usr == s1.players[room][2]
    IN IF s1.images[room] = <<>>
       THEN LET s2 == Emit(s1, Effect("text_game_over", room, None, None, None))
                s3 == Emit(s2, Effect("text_share", room, curr_usr.id, other_usr.id, s2.points[room]))
                s4 == Emit(s3, Effect("text_share", room, other_usr.id, curr_usr.id, s3.points[room]))
            IN close_game(s4, room)
       ELSE LET s2 == Emit(s1, Effect("text_next_image", room, None, Len(s1.images[room]), None))
                s3 == Emit(s2, Effect("wordle_init", room, None, None, None))
                s4 == [s3 EXCEPT !.players[room] = reset_players(@)]
                s5 == show_item(s4, room)
            IN start_round_timer(s5, room)

time_out_round(s, room) ==
    next_round(Emit(s, Effect("text_time_up", room, None, None, None)), room)

\* curr_usr, other_usr = players; swapped when the first one is not user_id
curr_of(players, user_id) == IF players[1].id # user_id THEN players[2] ELSE players[1]
other_of(players, user_id) == IF players[1].id # user_id THEN players[1] ELSE players[2]

\* clear_mismatch that keeps the two submissions
clear_mismatch_keeps(s, room) == s

\* the two users sent different words: guesses_per_room[room_id] = dict()
clear_mismatch(s, room) == [s EXCEPT !.guesses[room] = EmptyDict]

\* reset_guess that keeps the two submissions
reset_guess_keeps(s, room, guess) == [s EXCEPT !.history[room] = Append(@, guess)]

\* the two users sent the same word: reset guess, append it to the history
reset_guess(s, room, guess) ==
    [s EXCEPT !.guesses[room] = EmptyDict,
              !.history[room] = Append(@, guess)]

\* the word-list check that lets every word pass
any_word(guess) == TRUE

\* guess in self.wordlist
in_wordlist(guess) == guess \in wordlist

\* the old-guess branch that stores the new word over the old one
overwrite_old_guess(s, room, usr_id, guess) ==
    Emit([s EXCEPT !.guesses[room][usr_id] = guess],
         Effect("text_already_guessed", room, usr_id, s.guesses[room][usr_id], None))

\* old_guess is not None: tell the user the guess that is stored, and return
reject_old_guess(s, room, usr_id, guess) ==
    Emit(s, Effect("text_already_guessed", room, usr_id, s.guesses[room][usr_id], None))

\* (word == guess) or (remaining_guesses == 1)
round_is_over(word, guess, remaining_guesses) == word = guess \/ remaining_guesses = 1

\* round_points that looks up the guesses used instead of the guesses remaining
round_points_used(word, guess, remaining_guesses) ==
    IF word = guess THEN point_system[7 - remaining_guesses] ELSE 0

\* points = 0; if word == guess: points = point_system[int(remaining_guesses)]
round_points(word, guess, remaining_guesses) ==
    IF word = guess THEN point_system[remaining_guesses] ELSE 0

_command_guess(s, room, user_id, command) ==
    LET curr_usr == curr_of(s.players[room], user_id)
        other_usr == other_of(s.players[room], user_id)
        word == s.images[room][1][1]
        guess == command.guess
        remaining_guesses == command.remaining
        \* old_guess = guesses.get(curr_usr["id"]) is not None
        has_old_guess == curr_usr.id \in DOMAIN s.guesses[room]
        s1 == [s EXCEPT !.guesses[room] = Put(@, curr_usr.id, guess)]
        n == Cardinality(DOMAIN s1.guesses[room])
        values == {s1.guesses[room][u] : u \in DOMAIN s1.guesses[room]}
    IN
    IF s.images[room] = <<>> THEN s  \* IndexError
    ELSE IF command.shape = "guess_no_remaining" THEN s  \* KeyError of command["remaining"]
    ELSE IF ~ in_wordlist(guess)
    THEN Emit(s, Effect("text_invalid_word", room, curr_usr.id, None, None))
    ELSE IF Len(word) # Len(guess)
    THEN Emit(s, Effect("text_wrong_length", room, curr_usr.id, Len(word), None))
    ELSE IF has_old_guess
    THEN reject_old_guess(s, room, curr_usr.id, guess)
    ELSE IF n = 1
    THEN Emit(Emit(s1, Effect("text_wait_partner", room, curr_usr.id, None, None)),
              Effect("text_partner_guessed", room, other_usr.id, None, None))
    ELSE IF n = 2 /\ Cardinality(values) = 2
    THEN clear_mismatch(Emit(s1, Effect("text_different_words", room, None, None, None)), room)
    ELSE IF n = 2 /\ Cardinality(values) = 1
    THEN LET s2 == reset_guess(s1, room, guess)
             s3 == Emit(s2, Effect("wordle_guess", room, None, guess, word))
         IN IF round_is_over(word, guess, remaining_guesses)
            THEN IF word = guess /\ remaining_guesses \notin DOMAIN point_system
                 THEN s3  \* KeyError of point_system[int(remaining_guesses)]
                 ELSE LET points == round_points(word, guess, remaining_guesses)
                          result == IF word = guess THEN "WON" ELSE "LOST"
                          s4 == [s3 EXCEPT !.points[room] = @ + points]
                          s5 == Emit(s4, Effect("text_result", room, None, result, points))
                      IN next_round(s5, room)
            ELSE s3
    ELSE s1

----------------------------------------------------------------------------
(* Event handlers and timer callbacks *)

\* images_per_room.get_image_pairs(room_id): one row of each pair file
ItemSamples == {<<e, i, d>> : e \in EasyPairs, i \in IdealPairs, d \in DifficultPairs}

\* the command payloads a client may send: a guess of the right length
\* with every `remaining`, one guess of each rejected kind, a guess without
\* `remaining`, a dictionary without guess, and a command that is no dictionary
Commands ==
    [shape : {"guess"}, guess : {ab, cd}, remaining : RemainingInputs]
    \cup [shape : {"guess"}, guess : {xyz, qqq, blank}, remaining : {1}]
    \cup [shape : {"guess_no_remaining"}, guess : {ab, blank}, remaining : {None}]
    \cup [shape : {"dict", "opaque"}, guess : {<<>>}, remaining : {None}]

\* what the bot itself sends as a command
BotCommands == [shape : {"dict"}, guess : {<<>>}, remaining : {None}]

TypeInit ==
    /\ images_per_room = EmptyDict
    /\ players_per_room = EmptyDict
    /\ last_message_from = EmptyDict
    /\ guesses_per_room = EmptyDict
    /\ guesses_history = EmptyDict
    /\ points_per_room = EmptyDict
    /\ timers_per_room = EmptyDict
    /\ timer_threads = EmptyBag
    /\ created = {}
    /\ out = <<>>
    /\ event = NoEvent
    /\ sleeping = {}

Init == TypeInit

\* the body of new_task_room for a task of this bot
create_room(s, room, users, sample) ==
    LET s1 == [s EXCEPT !.images = Put(@, room, sample),
                        !.players = Put(@, room, [i \in DOMAIN users |->
                                        [id |-> users[i], msg_n |-> 0, status |-> "joined"]]),
                        !.lastmsg = Put(@, room, None)]
        s2 == Emit(Emit(s1, Effect("join_room", room, BotId, None, None)),
                   Effect("wordle_init", room, None, None, None))
        s3 == [s2 EXCEPT !.guesses = Put(@, room, EmptyDict),
                         !.history = Put(@, room, <<>>),
                         !.points = Put(@, room, 0)]
        s4 == show_item(s3, room)
        s5 == [s4 EXCEPT !.created = @ \cup {room},
                         !.rtimers = Put(@, room, [left_room |-> EmptyDict,
                                                   round_timer |-> NoTimer]),
                         !.threads = IF room \in DOMAIN s4.rtimers
                                     THEN @ (+) SetToBag({t \in Referenced(s4.rtimers[room]) : t.live})
                                     ELSE @]
    IN start_round_timer(s5, room)

\* the platform announces every task room once: `created` is the set of
\* room ids it has used
new_task_room(room, users, sample) ==
    /\ room \notin created
    /\ Commit(create_room(Cur, room, users, sample),
              Event("new_task_room", room, None, "", NoCommand, NoTimer))

joined_room(room) ==
    /\ room \in Rooms
    /\ Commit(IF room \in DOMAIN images_per_room
              THEN Emit(Emit(Cur, Effect("text_greeting", room, None, None, None)),
                        Effect("patch_title", room, None, None, None))
              ELSE Cur,
              Event("joined_room", room, None, "", NoCommand, NoTimer))

\* replay that starts with the newest entry of the guess history
RECURSIVE replay_reversed(_, _, _, _)
replay_reversed(room, to, history, word) ==
    IF history = <<>> THEN <<>>
    ELSE replay_reversed(room, to, Tail(history), word)
         \o <<Effect("wordle_guess", room, to, Head(history), word)>>

\* the catch-up commands of a rejoin, one per entry of the guess history
RECURSIVE replay(_, _, _, _)
replay(room, to, history, word) ==
    IF history = <<>> THEN <<>>
    ELSE <<Effect("wordle_guess", room, to, Head(history), word)>>
         \o replay(room, to, Tail(history), word)

status_join(s, room, user_id) ==
    LET curr_usr == curr_of(s.players[room], user_id)
        other_usr == other_of(s.players[room], user_id)
        s1 == Emit(s, Effect("text_joined", room, other_usr.id, curr_usr.id, None))
    IN IF s.images[room] = <<>> THEN s1  \* IndexError of images_per_room[room_id][0]
       ELSE
       LET word == s1.images[room][1][1]
           s2 == Emit(s1, Effect("wordle_init", room, curr_usr.id, None, None))
           s3 == show_item(s2, room)
           s4 == [s3 EXCEPT !.out = @ \o replay(room, curr_usr.id, s3.history[room], word)]
           left_room == s4.rtimers[room].left_room
       IN IF curr_usr.id \in DOMAIN left_room
          THEN [s4 EXCEPT !.rtimers[room].left_room[curr_usr.id] = CancelTimer(@)]
          ELSE s4

status_leave(s, room, user_id) ==
    LET curr_usr == curr_of(s.players[room], user_id)
        other_usr == other_of(s.players[room], user_id)
        s1 == Emit(s, Effect("text_left", room, other_usr.id, curr_usr.id, None))
        left_room == s1.rtimers[room].left_room
        old == IF curr_usr.id \in DOMAIN left_room THEN left_room[curr_usr.id] ELSE NoTimer
        new == StartTimer("left", room, curr_usr.id, None)
    IN [s1 EXCEPT !.rtimers[room].left_room = Put(@, curr_usr.id, new),
                  !.threads = Unreference(@, old)]

\* the status handler as a function of the state it starts in
on_status(s, room, user_id, type) ==
    IF room \notin DOMAIN s.images THEN s
    ELSE IF type = "join" THEN status_join(s, room, user_id)
    ELSE status_leave(s, room, user_id)

status(room, user_id, type) ==
    /\ room \in Rooms
    /\ Commit(on_status(Cur, room, user_id, type),
              Event("status", room, user_id, type, NoCommand, NoTimer))

\* the text handler that counts the messages of a player in any status
on_text_counts_any_status(s, room, user_id) ==
    IF room \notin DOMAIN s.images \/ user_id = BotId THEN s
    ELSE [s EXCEPT !.players[room] =
            [i \in DOMAIN @ |-> IF @[i].id = user_id
                                THEN [@[i] EXCEPT !.msg_n = @ + 1] ELSE @[i]]]

\* the text handler as a function of the state it starts in
on_text(s, room, user_id) ==
    IF room \notin DOMAIN s.images \/ user_id = BotId THEN s
    ELSE [s EXCEPT !.players[room] =
            [i \in DOMAIN @ |-> IF @[i].id = user_id /\ @[i].status = "ready"
                                THEN [@[i] EXCEPT !.msg_n = @ + 1] ELSE @[i]]]

text_message(room, user_id) ==
    /\ room \in Rooms
    /\ Commit(on_text(Cur, room, user_id),
              Event("text_message", room, user_id, "", NoCommand, NoTimer))

\* the command handler with the answer to a command that is no dictionary
\* placed before the test of the room
on_command_answers_any_room(s, room, user_id, cmd) ==
    IF user_id = BotId THEN s
    ELSE IF cmd.shape = "opaque"
    THEN Emit(s, Effect("text_not_understood", room, user_id, None, None))
    ELSE IF room \notin DOMAIN s.images \/ cmd.shape = "dict" THEN s
    ELSE IF strip(cmd.guess) = <<>>
    THEN Emit(s, Effect("text_need_guess", room, user_id, None, None))
    ELSE _command_guess(s, room, user_id, cmd)

\* the command handler as a function of the state it starts in
on_command(s, room, user_id, cmd) ==
    IF user_id = BotId \/ room \notin DOMAIN s.images THEN s
    ELSE IF cmd.shape = "opaque"
    THEN Emit(s, Effect("text_not_understood", room, user_id, None, None))
    ELSE IF cmd.shape = "dict" THEN s
    ELSE IF strip(cmd.guess) = <<>>
    THEN Emit(s, Effect("text_need_guess", room, user_id, None, None))
    ELSE _command_guess(s, room, user_id, cmd)

command(room, user_id, cmd) ==
    /\ room \in Rooms
    /\ Commit(on_command(Cur, room, user_id, cmd),
              Event("command", room, user_id, "", cmd, NoTimer))

\* Timer t has finished: it can neither fire again nor be cancelled
finish(s, t) ==
    IF BagIn(t, s.threads)
    THEN [s EXCEPT !.threads = @ (-) SetToBag({t})]
    ELSE [s EXCEPT !.rtimers = [r \in DOMAIN @ |->
            [@[r] EXCEPT !.round_timer = IF @ = t THEN CancelTimer(@) ELSE @,
                         !.left_room = [u \in DOMAIN @ |-> IF @[u] = t THEN CancelTimer(@[u]) ELSE @[u]]]]]

\* a started Timer expires: its thread runs the callback
\* the callback of Timer t as a function of the state it starts in
on_timer(s, t) ==
    IF t.kind = "round" THEN time_out_round(finish(s, t), t.room)
    ELSE close_game(finish(s, t), t.room)

timer_fires(t) ==
    /\ t \in LiveTimers(Cur)
    /\ Commit(on_timer(Cur, t), Event("timer", t.room, t.user, "", NoCommand, t))

Next ==
    \/ \E room \in Rooms, users \in Rosters, sample \in ItemSamples : new_task_room(room, users, sample)
    \/ \E room \in Rooms : joined_room(room)
    \/ \E room \in Rooms, user_id \in StatusUsers, type \in {"join", "leave"} : status(room, user_id, type)
    \/ \E room \in Rooms, user_id \in TextSenders : text_message(room, user_id)
    \/ \E room \in Rooms, user_id \in PlayerIds, cmd \in Commands : command(room, user_id, cmd)
    \/ \E room \in Rooms, cmd \in BotCommands : command(room, BotId, cmd)
    \/ \E t \in LiveTimers(Cur) : timer_fires(t)

Spec == Init /\ [][Next]_vars

----------------------------------------------------------------------------
(* Rounds with several agreed guesses: the same handlers with a longer     *)
(* guess history, players that agree on words of the secret word's length  *)
(* with attempts left, and both players leaving and rejoining.             *)

ReplayCommands == [shape : {"guess"}, guess : {ab, cd, ef}, remaining : {4}]

ReplaySession(room, users, sample) ==
    /\ room \notin created
    /\ CommitWithin(create_room(Cur, room, users, sample),
                    Event("new_task_room", room, None, "", NoCommand, NoTimer), MaxReplay)

ReplayStatus(room, user_id, type) ==
    /\ room \in Rooms
    /\ CommitWithin(on_status(Cur, room, user_id, type),
                    Event("status", room, user_id, type, NoCommand, NoTimer), MaxReplay)

ReplayGuess(room, user_id, cmd) ==
    /\ room \in Rooms
    /\ CommitWithin(on_command(Cur, room, user_id, cmd),
                    Event("command", room, user_id, "", cmd, NoTimer), MaxReplay)

ReplayTimer(t) ==
    /\ t \in LiveTimers(Cur)
    /\ CommitWithin(on_timer(Cur, t), Event("timer", t.room, t.user, "", NoCommand, t), MaxReplay)

ReplayNext ==
    \/ \E room \in Rooms, users \in Rosters, sample \in ItemSamples : ReplaySession(room, users, sample)
    \/ \E room \in Rooms, user_id \in PlayerIds, type \in {"join", "leave"} : ReplayStatus(room, user_id, type)
    \/ \E room \in Rooms, user_id \in PlayerIds, cmd \in ReplayCommands : ReplayGuess(room, user_id, cmd)
    \/ \E t \in LiveTimers(Cur) : ReplayTimer(t)

ReplaySpec == Init /\ [][ReplayNext]_vars

----------------------------------------------------------------------------
(* A platform that announces a task room more than once: the same handlers, *)
(* with new_task_room also called for a room id that was announced before.  *)

DupCommands == [shape : {"guess"}, guess : {ab, cd}, remaining : {1, 4}]

DupSession(room, users, sample) ==
    /\ room \in Rooms
    /\ Commit(create_room(Cur, room, users, sample),
              Event("new_task_room", room, None, "", NoCommand, NoTimer))

DupStatus(room, user_id, type) ==
    /\ room \in Rooms
    /\ Commit(on_status(Cur, room, user_id, type),
              Event("status", room, user_id, type, NoCommand, NoTimer))

DupGuess(room, user_id, cmd) ==
    /\ room \in Rooms
    /\ Commit(on_command(Cur, room, user_id, cmd),
              Event("command", room, user_id, "", cmd, NoTimer))

DupTimer(t) ==
    /\ t \in LiveTimers(Cur)
    /\ Commit(on_timer(Cur, t), Event("timer", t.room, t.user, "", NoCommand, t))

DupNext ==
    \/ \E room \in Rooms, users \in Rosters, sample \in ItemSamples : DupSession(room, users, sample)
    \/ \E room \in Rooms, user_id \in PlayerIds, type \in {"join", "leave"} : DupStatus(room, user_id, type)
    \/ \E room \in Rooms, user_id \in PlayerIds, cmd \in DupCommands : DupGuess(room, user_id, cmd)
    \/ \E t \in LiveTimers(Cur) : DupTimer(t)

SpecDup == Init /\ [][DupNext]_vars

----------------------------------------------------------------------------
(* Two task rooms at a time: the same handlers, with events and timers of   *)
(* two room ids in any order.                                               *)

RoomPair == {1, 2}

PairCommands == [shape : {"guess"}, guess : {ab}, remaining : {1, 4}]

PairSession(room, users, sample) ==
    /\ room \notin created
    /\ Commit(create_room(Cur, room, users, sample),
              Event("new_task_room", room, None, "", NoCommand, NoTimer))

PairStatus(room, user_id, type) ==
    Commit(on_status(Cur, room, user_id, type),
           Event("status", room, user_id, type, NoCommand, NoTimer))

PairGuess(room, user_id, cmd) ==
    Commit(on_command(Cur, room, user_id, cmd),
           Event("command", room, user_id, "", cmd, NoTimer))

PairTimer(t) ==
    /\ t \in LiveTimers(Cur)
    /\ Commit(on_timer(Cur, t), Event("timer", t.room, t.user, "", NoCommand, t))

PairNext ==
    \/ \E room \in RoomPair, users \in Rosters, sample \in ItemSamples : PairSession(room, users, sample)
    \/ \E room \in RoomPair, type \in {"join", "leave"} : PairStatus(room, 1, type)
    \/ \E room \in RoomPair, user_id \in PlayerIds, cmd \in PairCommands : PairGuess(room, user_id, cmd)
    \/ \E t \in LiveTimers(Cur) : PairTimer(t)

SpecPair == Init /\ [][PairNext]_vars

----------------------------------------------------------------------------
(* Requests that the platform answers with an error status: the handler    *)
(* logs, response.raise_for_status() raises, and the exception leaves the  *)
(* handler or the Timer thread.  What the handler did before the request   *)
(* stays; what it does after the request in the code does not happen.      *)

\* show_item whose first image patch is answered with an error
show_item_fails(s, room) ==
    LET users == sorted_by_id(s.players[room])
    IN Emit(s, Effect("patch_image_failed", room, users[1].id, s.images[room][1][2], None))

\* room_to_read_only with an error answer to the read-only patch, or to
\* the request for the first user of the roster
room_to_read_only_fails(s, room, at) ==
    IF at = "readonly" \/ room \notin DOMAIN s.players
    THEN Emit(s, Effect("patch_readonly_failed", room, None, None, None))
    ELSE [s EXCEPT !.out = @ \o <<Effect("patch_readonly", room, None, None, None),
                                   Effect("patch_placeholder", room, None, None, None),
                                   Effect("remove_user_failed", room, s.players[room][1].id, None, None)>>]

\* close_game: the exception of room_to_read_only skips the pops
close_game_fails(s, room, at) ==
    room_to_read_only_fails(Emit(s, Effect("text_closing", room, None, None, None)), room, at)

\* next_round: the exception of show_item skips the start of the round
\* timer, the exception of close_game leaves the room in the dictionaries
next_round_fails(s, room, at) ==
    IF room \notin DOMAIN s.images \/ s.images[room] = <<>>
    THEN s  \* KeyError / IndexError of images_per_room[room_id].pop(0)
    ELSE
    LET s1 == clear_round([s EXCEPT !.images[room] = Tail(@)], room)
        curr_usr == s1.players[room][1]
        other_usr == s1.players[room][2]
    IN IF s1.images[room] = <<>>
       THEN LET s2 == Emit(s1, Effect("text_game_over", room, None, None, None))
                s3 == Emit(s2, Effect("text_share", room, curr_usr.id, other_usr.id, s2.points[room]))
                s4 == Emit(s3, Effect("text_share", room, other_usr.id, curr_usr.id, s3.points[room]))
            IN close_game_fails(s4, room, at)
       ELSE LET s2 == Emit(s1, Effect("text_next_image", room, None, Len(s1.images[room]), None))
                s3 == Emit(s2, Effect("wordle_init", room, None, None, None))
                s4 == [s3 EXCEPT !.players[room] = reset_players(@)]
            IN show_item_fails(s4, room)

\* new_task_room whose request to join the room is answered with an error
create_room_fails(s, room, users, sample) ==
    LET s1 == [s EXCEPT !.images = Put(@, room, sample),
                        !.players = Put(@, room, [i \in DOMAIN users |->
                                        [id |-> users[i], msg_n |-> 0, status |-> "joined"]]),
                        !.lastmsg = Put(@, room, None),
                        !.created = @ \cup {room}]
    IN Emit(s1, Effect("join_room_failed", room, BotId, None, None))

\* the callback of Timer t with an error answer to its first request
on_timer_fails(s, t, at) ==
    IF t.kind = "round"
    THEN next_round_fails(Emit(finish(s, t), Effect("text_time_up", t.room, None, None, None)),
                          t.room, at)
    ELSE close_game_fails(finish(s, t), t.room, at)

FailCommands == [shape : {"guess"}, guess : {ab, cd}, remaining : {1, 4}]

FailSession(room, users, sample, ok) ==
    /\ room \notin created
    /\ Commit(IF ok THEN create_room(Cur, room, users, sample)
              ELSE create_room_fails(Cur, room, users, sample),
              Event("new_task_room", room, None, "", NoCommand, NoTimer))

\* a room whose creation failed has no submissions, history, score and
\* timers: the status and command handlers raise KeyError on it, and these
\* runs are left out
FailStatus(room, user_id, type) ==
    /\ room \in Rooms
    /\ room \in DOMAIN timers_per_room \/ room \notin DOMAIN images_per_room
    /\ Commit(on_status(Cur, room, user_id, type),
              Event("status", room, user_id, type, NoCommand, NoTimer))

FailGuess(room, user_id, cmd) ==
    /\ room \in Rooms
    /\ room \in DOMAIN timers_per_room \/ room \notin DOMAIN images_per_room
    /\ Commit(on_command(Cur, room, user_id, cmd),
              Event("command", room, user_id, "", cmd, NoTimer))

FailTimer(t, at) ==
    /\ t \in LiveTimers(Cur)
    /\ Commit(IF at = "none" THEN on_timer(Cur, t) ELSE on_timer_fails(Cur, t, at),
              Event("timer", t.room, t.user, "", NoCommand, t))

FailNext ==
    \/ \E room \in Rooms, users \in Rosters, sample \in ItemSamples, ok \in BOOLEAN :
          FailSession(room, users, sample, ok)
    \/ \E room \in Rooms, user_id \in PlayerIds, type \in {"join", "leave"} : FailStatus(room, user_id, type)
    \/ \E room \in Rooms, user_id \in PlayerIds, cmd \in FailCommands : FailGuess(room, user_id, cmd)
    \/ \E t \in LiveTimers(Cur), at \in {"none", "readonly", "removal"} : FailTimer(t, at)

SpecFail == Init /\ [][FailNext]_vars

----------------------------------------------------------------------------
(* Threads.  The socket.io client runs one event handler at a time in its   *)
(* own thread; every Timer runs its callback in a thread of its own; the    *)
(* code takes no lock.  A thread runs from one sleep() call to the next as  *)
(* one step, and any other thread may run while it sleeps.                  *)

\* the thread of the event handlers
HandlerThread == NoTimer

\* time.sleep() at line `at` of a thread that works on `room`; `locals` are
\* the local variables the rest of the method reads
Sleep(s, thread, room, at, locals) ==
    [s EXCEPT !.sleeping = @ \cup {[thread |-> thread, room |-> room, at |-> at, locals |-> locals]}]

\* next_round up to its first sleep(): 575-594 and 575-650
next_round_begin(s, thread, room) ==
    IF room \notin DOMAIN s.images \/ s.images[room] = <<>>
    THEN s  \* KeyError / IndexError of images_per_room[room_id].pop(0)
    ELSE
    LET s1 == clear_round([s EXCEPT !.images[room] = Tail(@)], room)
    IN IF room \notin DOMAIN s1.players THEN s1  \* KeyError of players_per_room[room_id]
       ELSE IF s1.images[room] = <<>>
       THEN Sleep(Emit(s1, Effect("text_game_over", room, None, None, None)), thread, room, 594,
                  <<s1.players[room][1].id, s1.players[room][2].id>>)
       ELSE Sleep(Emit(s1, Effect("text_next_image", room, None, Len(s1.images[room]), None)),
                  thread, room, 650, <<>>)

\* _command_guess after sleep(2) at 541: the points, the result, next_round
guess_after_541(s, thread, room, locals) ==
    LET word == locals.word
        guess == locals.guess
        remaining_guesses == locals.remaining
    IN IF word = guess /\ remaining_guesses \notin DOMAIN point_system
       THEN s  \* KeyError of point_system[int(remaining_guesses)]
       ELSE IF room \notin DOMAIN s.points THEN s  \* KeyError of points_per_room[room_id]
       ELSE LET points == round_points(word, guess, remaining_guesses)
                result == IF word = guess THEN "WON" ELSE "LOST"
                s4 == [s EXCEPT !.points[room] = @ + points]
                s5 == Emit(s4, Effect("text_result", room, None, result, points))
            IN next_round_begin(s5, thread, room)

\* next_round after sleep(2) at 650: 651-667
next_round_after_650(s, room) ==
    LET s3 == Emit(s, Effect("wordle_init", room, None, None, None))
    IN IF room \notin DOMAIN s3.players THEN s3  \* KeyError of players_per_room[room_id]
       ELSE LET s4 == [s3 EXCEPT !.players[room] = reset_players(@)]
            IN IF room \notin DOMAIN s4.images THEN s4  \* KeyError in show_item
               ELSE LET s5 == show_item(s4, room)
                    IN IF room \notin DOMAIN s5.rtimers THEN s5  \* KeyError of timers_per_room[room_id]
                       ELSE start_round_timer(s5, room)

\* next_round after sleep(1) at 594: the two summaries, sleep(1) at 634 and,
\* first thing in close_game, sleep(2) at 768
next_round_after_594(s, thread, room, locals) ==
    IF room \notin DOMAIN s.points THEN s  \* KeyError of points_per_room[room_id]
    ELSE LET s3 == Emit(s, Effect("text_share", room, locals[1], locals[2], s.points[room]))
             s4 == Emit(s3, Effect("text_share", room, locals[2], locals[1], s3.points[room]))
         IN Sleep(s4, thread, room, 768, <<>>)

\* a command handler up to its first sleep(): the whole handler, or an
\* agreed guess that ends the round up to sleep(2) at 541
command_begin(s, room, user_id, cmd) ==
    LET ends_round ==
            /\ user_id # BotId /\ room \in DOMAIN s.images /\ s.images[room] # <<>>
            /\ cmd.shape = "guess" /\ in_wordlist(cmd.guess)
            /\ Len(cmd.guess) = Len(s.images[room][1][1])
            /\ DOMAIN s.guesses[room] = {other_of(s.players[room], user_id).id}
            /\ s.guesses[room][other_of(s.players[room], user_id).id] = cmd.guess
            /\ round_is_over(s.images[room][1][1], cmd.guess, cmd.remaining)
    IN IF ends_round
       THEN LET word == s.images[room][1][1]
                s2 == reset_guess(s, room, cmd.guess)
                s3 == Emit(s2, Effect("wordle_guess", room, None, cmd.guess, word))
            IN Sleep(s3, HandlerThread, room, 541,
                     [word |-> word, guess |-> cmd.guess, remaining |-> cmd.remaining])
       ELSE on_command(s, room, user_id, cmd)

\* the callback of Timer t up to its first sleep()
timer_begin(s, t) ==
    IF t.kind = "round"
    THEN next_round_begin(Emit(finish(s, t), Effect("text_time_up", t.room, None, None, None)),
                          t, t.room)
    ELSE Sleep(finish(s, t), t, t.room, 768, <<>>)

\* thread p returns from sleep() and runs to its next sleep() or to its end
wake(s, p) ==
    LET s0 == [s EXCEPT !.sleeping = @ \ {p}]
    IN CASE p.at = 541 -> guess_after_541(s0, p.thread, p.room, p.locals)
         [] p.at = 650 -> next_round_after_650(s0, p.room)
         [] p.at = 594 -> next_round_after_594(s0, p.thread, p.room, p.locals)
         [] p.at = 768 -> close_game(s0, p.room)

\* no event handler is inside a sleep()
HandlerIdle == \A p \in sleeping : p.thread # HandlerThread

ThreadCommands == [shape : {"guess"}, guess : {ab, cd}, remaining : {1, 4}]

ThreadSession(room, users, sample) ==
    /\ room \notin created
    /\ HandlerIdle
    /\ Commit(create_room(Cur, room, users, sample),
              Event("new_task_room", room, None, "", NoCommand, NoTimer))

ThreadStatus(room, user_id, type) ==
    /\ room \in Rooms
    /\ HandlerIdle
    /\ Commit(on_status(Cur, room, user_id, type),
              Event("status", room, user_id, type, NoCommand, NoTimer))

ThreadGuess(room, user_id, cmd) ==
    /\ room \in Rooms
    /\ HandlerIdle
    /\ Commit(command_begin(Cur, room, user_id, cmd),
              Event("command", room, user_id, "", cmd, NoTimer))

ThreadTimer(t) ==
    /\ t \in LiveTimers(Cur)
    /\ Commit(timer_begin(Cur, t), Event("timer", t.room, t.user, "", NoCommand, t))

ThreadWakes(p) ==
    /\ p \in sleeping
    /\ Commit(wake(Cur, p), Event("wake", p.room, None, "", NoCommand, p.thread))

ThreadNext ==
    \/ \E room \in Rooms, users \in Rosters, sample \in ItemSamples : ThreadSession(room, users, sample)
    \/ \E room \in Rooms, type \in {"join", "leave"} : ThreadStatus(room, 1, type)
    \/ \E room \in Rooms, user_id \in PlayerIds, cmd \in ThreadCommands : ThreadGuess(room, user_id, cmd)
    \/ \E t \in LiveTimers(Cur) : ThreadTimer(t)
    \/ \E p \in sleeping : ThreadWakes(p)

SpecThreads == Init /\ [][ThreadNext]_vars

----------------------------------------------------------------------------
(* Players that never guess: rooms are created, players join and leave,     *)
(* and timers expire.  A started Timer expires after its interval, so the   *)
(* step of the Timer threads is taken when it stays possible.               *)

IdleSession(room, users, sample) ==
    /\ room \notin created
    /\ Commit(create_room(Cur, room, users, sample),
              Event("new_task_room", room, None, "", NoCommand, NoTimer))

IdleStatus(room, user_id, type) ==
    /\ room \in Rooms
    /\ Commit(on_status(Cur, room, user_id, type),
              Event("status", room, user_id, type, NoCommand, NoTimer))

IdleTimer(t) ==
    /\ t \in LiveTimers(Cur)
    /\ Commit(on_timer(Cur, t), Event("timer", t.room, t.user, "", NoCommand, t))

IdleTimers == \E t \in LiveTimers(Cur) : IdleTimer(t)

IdleNext ==
    \/ \E room \in Rooms, users \in Rosters, sample \in ItemSamples : IdleSession(room, users, sample)
    \/ \E room \in Rooms, user_id \in PlayerIds, type \in {"join", "leave"} : IdleStatus(room, user_id, type)
    \/ IdleTimers

SpecIdle == Init /\ [][IdleNext]_vars /\ WF_vars(IdleTimers)

----------------------------------------------------------------------------
(* Vocabulary of the properties *)

\* the started timers of one kind that call back into room r, each counted
LiveTimerCount(s, kind, r) ==
    Cardinality({t \in LiveReferenced(s) : t.kind = kind /\ t.room = r})
    + BagCardinality([t \in {x \in BagToSet(s.threads) : x.kind = kind /\ x.room = r}
                        |-> s.threads[t]])

\* the secret word of the current round of room r
SecretWord(r) == images_per_room[r][1][1]

\* the word of the pending submission of room r
PendingWord(r) == guesses_per_room[r][CHOOSE x \in DOMAIN guesses_per_room[r] : TRUE]

\* the step runs the command handler for a guess that passes every check
\* while the other player's guess is pending: the second submission of the round
SecondSubmission(r) ==
    /\ event'.name = "command" /\ event'.room = r /\ event'.user # BotId
    /\ r \in DOMAIN images_per_room
    /\ event'.cmd.shape = "guess"
    /\ event'.cmd.guess \in wordlist
    /\ Len(event'.cmd.guess) = Len(SecretWord(r))
    /\ DOMAIN guesses_per_room[r] = {other_of(players_per_room[r], event'.user).id}

\* the step handles a second submission with the word of the first one
AgreedGuess(r) == SecondSubmission(r) /\ PendingWord(r) = event'.cmd.guess
\* the step handles a second submission with another word than the first one
MismatchedGuess(r) == SecondSubmission(r) /\ PendingWord(r) # event'.cmd.guess
\* the step handles an agreed guess of the secret word with remaining in 1..6
WinningGuess(r) ==
    AgreedGuess(r) /\ event'.cmd.guess = SecretWord(r) /\ event'.cmd.remaining \in 1..6
\* the step runs the callback of Timer t
TimerFires(t) == event'.name = "timer" /\ event'.timer = t

\* the handler that ran last sent an effect of this kind about room r
Sent(o, kind, r) == \E i \in DOMAIN o : o[i].kind = kind /\ o[i].room = r
\* the total score the final summary of room r carries
SummaryTotal(o, r) == o[CHOOSE i \in DOMAIN o : o[i].kind = "text_share" /\ o[i].room = r].b

\* no per-room dictionary holds room r
NoSession(s, r) ==
    /\ r \notin DOMAIN s.images
    /\ r \notin DOMAIN s.players
    /\ r \notin DOMAIN s.lastmsg
    /\ r \notin DOMAIN s.guesses
    /\ r \notin DOMAIN s.history
    /\ r \notin DOMAIN s.points
    /\ r \notin DOMAIN s.rtimers

----------------------------------------------------------------------------
(* Properties *)

\* C1: in every state, every room with a session has at most one started
\* round timer, and a started round timer of the room was constructed for the
\* round whose item is at the head of the room's item sequence.
C1_OneRoundTimerOfCurrentRound ==
    \A r \in DOMAIN timers_per_room :
        /\ LiveTimerCount(Cur, "round", r) <= 1
        /\ \A t \in LiveTimers(Cur) :
               (t.kind = "round" /\ t.room = r) => t.round = Len(images_per_room[r])

\* C2: when the round timer of a round that an agreed guess has already
\* resolved fires, nothing of the session changes: no item is popped, no guess
\* or history is cleared, no timer is started and the game is not closed.
C2_StaleRoundTimerIsNoOp ==
    [][\A t \in LiveTimers(Cur) :
          (/\ t.kind = "round"
           /\ t.room \in DOMAIN images_per_room
           /\ t.round # Len(images_per_room[t.room])
           /\ TimerFires(t))
          => UNCHANGED <<images_per_room, players_per_room, guesses_per_room,
                         guesses_history, points_per_room, timers_per_room>>]_vars

\* C3: every started timer belongs to a session that still exists: closing a
\* game leaves no timer of the closed session started.
C3_NoTimerOutlivesItsSession ==
    \A t \in LiveTimers(Cur) : t.room \in DOMAIN timers_per_room

\* C4: a room has at most one started departure timer per player, and in the
\* state a join event of a player leaves, no departure timer of that player
\* is started.
C4_DepartureTimerPerPlayer ==
    \A r \in Rooms :
        /\ \A u \in PlayerIds :
               Cardinality({t \in LiveReferenced(Cur) : t.kind = "left" /\ t.room = r /\ t.user = u})
               + BagCardinality([t \in {x \in BagToSet(timer_threads) :
                                          x.kind = "left" /\ x.room = r /\ x.user = u}
                                   |-> timer_threads[t]]) <= 1
        /\ (/\ event.name = "status" /\ event.type = "join" /\ event.room = r
            /\ r \in DOMAIN players_per_room
            /\ \E i \in DOMAIN players_per_room[r] : players_per_room[r][i].id = event.user)
               => \A t \in LiveTimers(Cur) : ~(t.kind = "left" /\ t.room = r /\ t.user = event.user)

\* C5: a second submission that carries the word of the first one leaves the
\* room with an empty submission map, or with no submission map at all when
\* the game is completed.
C5_AgreedGuessLeavesNoSubmission ==
    [][\A r \in Rooms :
          AgreedGuess(r) =>
          \/ r \notin DOMAIN guesses_per_room'
          \/ DOMAIN guesses_per_room'[r] = {}]_vars

\* C5 witness: an agreed guess was handled and the room's submission map is empty
C5_Witness ==
    \E r \in DOMAIN guesses_per_room :
        /\ out # <<>> /\ out[1].kind = "wordle_guess" /\ out[1].to = None /\ out[1].room = r
        /\ DOMAIN guesses_per_room[r] = {}

\* C6: a second submission that differs from the first one empties the
\* submission map and changes nothing else: items, history, score, roster
\* and timers are as before.
C6_MismatchOnlyClearsSubmissions ==
    [][\A r \in Rooms :
          MismatchedGuess(r) =>
          /\ r \in DOMAIN guesses_per_room' /\ DOMAIN guesses_per_room'[r] = {}
          /\ UNCHANGED <<images_per_room, players_per_room, last_message_from,
                         guesses_history, points_per_room, timers_per_room,
                         timer_threads>>]_vars

\* C6 witness: the mismatch notice was sent and the submission map is empty
C6_Witness ==
    \E r \in DOMAIN guesses_per_room :
        /\ Len(out) = 1 /\ out[1].kind = "text_different_words" /\ out[1].room = r
        /\ DOMAIN guesses_per_room[r] = {}
        /\ Len(images_per_room[r]) = NItems

\* the points of the table of the claim
C7_Table(remaining) ==
    CASE remaining = 6 -> 100 [] remaining = 5 -> 50 [] remaining = 4 -> 25
      [] remaining = 3 -> 10 [] remaining = 2 -> 5 [] remaining = 1 -> 1

\* what a step adds to the score of room r; the final summary carries the
\* score of a room that the step closes
C7_Added(r) ==
    IF r \in DOMAIN points_per_room' THEN points_per_room'[r] - points_per_room[r]
    ELSE IF Sent(out', "text_share", r) THEN SummaryTotal(out', r) - points_per_room[r]
    ELSE 0

C8_AgreedGuessAdvancesIff ==
    [][\A r \in Rooms :
          AgreedGuess(r)
          => IF event'.cmd.guess = SecretWord(r) \/ event'.cmd.remaining = 1
             THEN r \notin DOMAIN images_per_room'
                  \/ images_per_room'[r] = Tail(images_per_room[r])
             ELSE /\ images_per_room' = images_per_room
                  /\ points_per_room' = points_per_room
                  /\ guesses_history'[r] = Append(guesses_history[r], event'.cmd.guess)]_vars

\* C9: a round advance with more than one item left removes the head item
\* and leaves the room's round timer started for the new round; a round
\* advance that consumes the last item removes the session and leaves no
\* round timer of the room started.
C9_RoundAdvance ==
    [][\A r \in DOMAIN images_per_room :
          (Sent(out', "text_next_image", r) \/ Sent(out', "text_game_over", r))
          => IF Len(images_per_room[r]) > 1
             THEN /\ r \in DOMAIN images_per_room'
                  /\ images_per_room'[r] = Tail(images_per_room[r])
                  /\ timers_per_room'[r].round_timer
                       = StartTimer("round", r, None, Len(images_per_room[r]) - 1)
             ELSE /\ NoSession(Cur', r)
                  /\ LiveTimerCount(Cur', "round", r) = 0]_vars

\* C10: when the round timer of the current round fires, the step leaves
\* what a lost round leaves: the score as it was, the head item popped, the
\* history and the submissions empty, both players reset and a round timer
\* started for the next round; with the last item, the final summary carries
\* the score as it was and the session is removed.
C10_TimeoutIsALostRound ==
    [][\A r \in DOMAIN timers_per_room :
          LET t == timers_per_room[r].round_timer
          IN (t.live /\ TimerFires(t))
             => IF Len(images_per_room[r]) > 1
                THEN /\ ~ NoSession(Cur', r)
                     /\ images_per_room'[r] = Tail(images_per_room[r])
                     /\ points_per_room'[r] = points_per_room[r]
                     /\ guesses_history'[r] = <<>>
                     /\ DOMAIN guesses_per_room'[r] = {}
                     /\ \A i \in DOMAIN players_per_room'[r] :
                            /\ players_per_room'[r][i].status = "ready"
                            /\ players_per_room'[r][i].msg_n = 0
                     /\ timers_per_room'[r].round_timer
                          = StartTimer("round", r, None, Len(images_per_room[r]) - 1)
                     /\ Sent(out', "text_next_image", r)
                ELSE /\ NoSession(Cur', r)
                     /\ Sent(out', "text_game_over", r)
                     /\ SummaryTotal(out', r) = points_per_room[r]]_vars

\* C10 witness: the time of a round ran out while a submission was pending,
\* and the next round has begun with no submission
C10_Witness ==
    \E r \in DOMAIN guesses_per_room :
        /\ out # <<>> /\ out[1].kind = "text_time_up" /\ out[1].room = r
        /\ Sent(out, "text_next_image", r)
        /\ DOMAIN guesses_per_room[r] = {}
        /\ guesses_history[r] = <<>>

\* the effects of o that are addressed to user u, in the order of o
AddressedTo(o, u) == LET to_u(e) == e.to = u IN SelectSeq(o, to_u)

\* the step handles the join event of player u of the roster of room r
KnownJoin(r, u) ==
    /\ event'.name = "status" /\ event'.type = "join"
    /\ event'.room = r /\ event'.user = u
    /\ r \in DOMAIN images_per_room
    /\ \E i \in DOMAIN players_per_room[r] : players_per_room[r][i].id = u

\* C11: a join event of a player of the roster sends to that player, in this
\* order, the init signal, the image of the current round and one reveal per
\* entry of the guess history in the order of the history; the items, the
\* roster, the submissions, the history, the score and the round timer are
\* as before.
C11_RejoinReplaysHistoryInOrder ==
    [][\A r \in Rooms, u \in PlayerIds :
          KnownJoin(r, u) =>
          /\ AddressedTo(out', u)
               = <<Effect("wordle_init", r, u, None, None),
                   Effect("patch_image", r, u, images_per_room[r][1][2], None)>>
                 \o [i \in 1..Len(guesses_history[r]) |->
                        Effect("wordle_guess", r, u, guesses_history[r][i], SecretWord(r))]
          /\ UNCHANGED <<images_per_room, players_per_room, last_message_from,
                         guesses_per_room, guesses_history, points_per_room, timer_threads>>
          /\ timers_per_room'[r].round_timer = timers_per_room[r].round_timer]_vars

\* C11 witness: a player has rejoined a round with two agreed guesses of
\* different words, and both were replayed to that player
C11_Witness ==
    /\ event.name = "status" /\ event.type = "join"
    /\ event.room \in DOMAIN guesses_history
    /\ Len(guesses_history[event.room]) = 2
    /\ guesses_history[event.room][1] # guesses_history[event.room][2]
    /\ Len(AddressedTo(out, event.user)) = 4

\* the step handles the leave event of player u of the roster of room r
KnownLeave(r, u) ==
    /\ event'.name = "status" /\ event'.type = "leave"
    /\ event'.room = r /\ event'.user = u
    /\ r \in DOMAIN images_per_room
    /\ \E i \in DOMAIN players_per_room[r] : players_per_room[r][i].id = u

\* C12: the leave event of a player of the roster starts a departure timer
\* of that player; a started departure timer of a player stays started until
\* it fires or that player joins again, and when it fires no per-room state
\* of the room is left.  A timer that stays started fires after its interval.
C12_DepartureTimerRunsUntilRejoin ==
    [][\A r \in Rooms, u \in PlayerIds :
          /\ KnownLeave(r, u) => timers_per_room'[r].left_room[u].live
          /\ (r \in DOMAIN timers_per_room /\ u \in DOMAIN timers_per_room[r].left_room)
             => LET t == timers_per_room[r].left_room[u]
                IN t.live =>
                   \/ TimerFires(t) /\ NoSession(Cur', r)
                   \/ KnownJoin(r, u)
                   \/ t \in LiveTimers(Cur')]_vars

\* C13: between two handlers the submission map of a room holds at most one
\* entry, and its keys are players of the roster: a second submission is
\* resolved (match or mismatch) by the handler that stores it.
C13_AtMostOnePendingSubmission ==
    \A r \in DOMAIN guesses_per_room :
        /\ Cardinality(DOMAIN guesses_per_room[r]) <= 1
        /\ DOMAIN guesses_per_room[r]
             \subseteq {players_per_room[r][i].id : i \in DOMAIN players_per_room[r]}

\* C13 witness: the handler that ran last stored the second submission of a
\* round and resolved it, and the round goes on with an empty map
C13_Witness ==
    /\ event.name = "command" /\ event.cmd.shape = "guess"
    /\ event.room \in DOMAIN guesses_per_room
    /\ (Sent(out, "text_different_words", event.room) \/ Sent(out, "wordle_guess", event.room))
    /\ guesses_per_room[event.room] = EmptyDict
    /\ Len(images_per_room[event.room]) = NItems

\* the guesses that pass the word-list and length checks in room r
ValidGuesses(r) ==
    {c \in Commands : c.shape = "guess" /\ c.guess \in wordlist
                                         /\ Len(c.guess) = Len(SecretWord(r))}
\* the state after the command handler ran for c1 of u1 and then for c2 of u2
BothSubmit(s, r, u1, c1, u2, c2) == on_command(on_command(s, r, u1, c1), r, u2, c2)
\* what a handler state holds besides its outgoing effects
SessionOf(s) == [s EXCEPT !.out = <<>>]

\* C14: in a round without a pending submission, two valid guesses of the
\* two players, each with its own word and its own remaining, lead to the
\* same state and to the same messages to the room in both orders.
C14_SubmissionOrderIsIrrelevant ==
    \A r \in DOMAIN guesses_per_room :
        guesses_per_room[r] = EmptyDict =>
        \A c1, c2 \in ValidGuesses(r) :
            LET u1 == players_per_room[r][1].id
                u2 == players_per_room[r][2].id
                first == BothSubmit(Cur, r, u1, c1, u2, c2)
                second == BothSubmit(Cur, r, u2, c2, u1, c1)
            IN /\ SessionOf(first) = SessionOf(second)
               /\ AddressedTo(first.out, None) = AddressedTo(second.out, None)

\* the step runs the command handler of room r for a command of a user
CommandIn(r) ==
    /\ event'.name = "command" /\ event'.room = r /\ event'.user # BotId
    /\ r \in DOMAIN images_per_room
\* the player the command handler takes the sender of the step's command for
Sender(r) == curr_of(players_per_room[r], event'.user).id
\* the step leaves every dictionary and every timer as it is
SessionUnchanged ==
    UNCHANGED <<images_per_room, players_per_room, last_message_from, guesses_per_room,
                guesses_history, points_per_room, timers_per_room, timer_threads>>
\* the handler of the step sent one effect, a text of this kind to user u
OnlyTextTo(kind, r, u) ==
    Len(out') = 1 /\ out'[1].kind = kind /\ out'[1].room = r /\ out'[1].to = u

\* the step handles a guess that passes the blank, word-list and length
\* checks, sent by a player whose submission is pending
DuplicateGuess(r) ==
    /\ CommandIn(r)
    /\ event'.cmd.shape = "guess"
    /\ event'.cmd.guess \in wordlist
    /\ Len(event'.cmd.guess) = Len(SecretWord(r))
    /\ Sender(r) \in DOMAIN guesses_per_room[r]

\* C15: a valid guess of a player whose submission is pending changes
\* nothing (the stored word, the other player, history, score, items and
\* timers stay) and sends one message, to that player, that names the stored
\* word.
C15_DuplicateGuessIsRejected ==
    [][\A r \in Rooms :
          DuplicateGuess(r) =>
          /\ SessionUnchanged
          /\ OnlyTextTo("text_already_guessed", r, Sender(r))
          /\ out'[1].a = guesses_per_room[r][Sender(r)]]_vars

\* C15 witness: a player whose stored word is ab sent the guess cd and was
\* told that ab is stored
C15_Witness ==
    /\ event.name = "command" /\ event.cmd.guess = cd
    /\ out # <<>> /\ out[1].kind = "text_already_guessed" /\ out[1].a = ab
    /\ guesses_per_room[event.room][event.user] = ab

\* the three rejections of a guess before the old-guess check, in the order
\* of the checks: blank, not in the word list, wrong length
BlankGuess(r) ==
    /\ CommandIn(r)
    /\ event'.cmd.shape \in {"guess", "guess_no_remaining"}
    /\ strip(event'.cmd.guess) = <<>>
UnknownWord(r) ==
    /\ CommandIn(r)
    /\ event'.cmd.shape = "guess"
    /\ strip(event'.cmd.guess) # <<>>
    /\ event'.cmd.guess \notin wordlist
WrongLength(r) ==
    /\ CommandIn(r)
    /\ event'.cmd.shape = "guess"
    /\ event'.cmd.guess \in wordlist
    /\ Len(event'.cmd.guess) # Len(SecretWord(r))

\* C16: a blank guess, a guess that is not in the word list and a guess of
\* another length than the secret word change nothing and send one message,
\* to the sender; the message is the one of the first check that fails in
\* the order blank, word list, length, old guess.
C16_InvalidGuessIsRejected ==
    [][\A r \in Rooms :
          /\ BlankGuess(r) => SessionUnchanged /\ OnlyTextTo("text_need_guess", r, event'.user)
          /\ UnknownWord(r) => SessionUnchanged /\ OnlyTextTo("text_invalid_word", r, Sender(r))
          /\ WrongLength(r) => SessionUnchanged /\ OnlyTextTo("text_wrong_length", r, Sender(r))]_vars

\* C16 witness: a player whose submission is pending sent a word that is
\* neither in the word list nor of the right length, and was told that the
\* word is not valid
C16_Witness ==
    /\ event.name = "command" /\ event.cmd.guess = qqq
    /\ event.room \in DOMAIN guesses_per_room
    /\ event.user \in DOMAIN guesses_per_room[event.room]
    /\ out = <<Effect("text_invalid_word", event.room, event.user, None, None)>>

\* C20: close_game of a room without a session changes no dictionary and no
\* timer, and in every state close_game twice leaves the dictionaries and
\* timers that close_game once leaves.
C20_CloseGameIsIdempotent ==
    \A r \in Rooms :
        LET once == close_game(Cur, r)
        IN /\ NoSession(Cur, r) => SessionOf(once) = SessionOf(Cur)
           /\ SessionOf(close_game(once, r)) = SessionOf(once)

\* C20 witness: the departure timer of a player has run close_game for a
\* room whose session was closed before: no user was left to remove
C20_Witness ==
    /\ event.name = "timer" /\ event.timer.kind = "left"
    /\ NoSession(Cur, event.room)
    /\ Len(out) = 3 /\ out[1].kind = "text_closing"

\* C17: a step changes the item sequence of a room only by removing its
\* head item, and the room loses its session exactly in the step that
\* removes its last item.
C17_ItemsOnlyShrinkFromTheHead ==
    [][\A r \in DOMAIN images_per_room :
          IF r \in DOMAIN images_per_room'
          THEN /\ images_per_room'[r] \in {images_per_room[r], Tail(images_per_room[r])}
               /\ images_per_room'[r] # <<>>
          ELSE Len(images_per_room[r]) = 1]_vars

\* the points the handler of the step announced for a resolved round of room r
Awarded(o, r) ==
    IF Sent(o, "text_result", r)
    THEN o[CHOOSE i \in DOMAIN o : o[i].kind = "text_result" /\ o[i].room = r].b
    ELSE 0

\* C18: while a room has a session, a step changes its score only by adding
\* the points of the round the step resolves, so the score never decreases
\* and is the sum of the points awarded so far.
C18_ScoreOnlyAccumulates ==
    [][\A r \in DOMAIN points_per_room :
          r \in DOMAIN points_per_room'
          => /\ points_per_room'[r] >= points_per_room[r]
             /\ points_per_room'[r] = points_per_room[r] + Awarded(out', r)]_vars

\* the step runs new_task_room for a room that has a session
AnnouncedAgain(r) ==
    event'.name = "new_task_room" /\ event'.room = r /\ r \in DOMAIN images_per_room

\* C19: new_task_room for a room that has a session leaves its players,
\* items, submissions, history, score and timers as they are and starts no
\* round timer.
C19_SecondAnnouncementChangesNothing ==
    [][\A r \in Rooms :
          AnnouncedAgain(r)
          => /\ SessionUnchanged
             /\ LiveTimerCount(Cur', "round", r) = LiveTimerCount(Cur, "round", r)]_vars

\* the ids of the roster of room r
RosterIds(r) == {players_per_room[r][i].id : i \in DOMAIN players_per_room[r]}

\* the step runs the status handler of room r for a user that is not in
\* the roster of r
StrangerStatus(r) ==
    /\ event'.name = "status" /\ event'.room = r
    /\ r \in DOMAIN images_per_room
    /\ event'.user \notin RosterIds(r)

\* C23: a join or leave of a user that is in the roster of no player of the
\* room sends nothing, starts and cancels no timer, and changes no state.
C23_StrangerStatusIsIgnored ==
    [][\A r \in Rooms : StrangerStatus(r) => SessionUnchanged /\ out' = <<>>]_vars

\* the step runs the command handler of room r for a command that is no
\* dictionary, a dictionary without guess, or a guess without remaining
MalformedCommand(r) ==
    /\ CommandIn(r)
    /\ \/ event'.cmd.shape \in {"opaque", "dict"}
       \/ event'.cmd.shape = "guess_no_remaining" /\ strip(event'.cmd.guess) # <<>>

\* C24: a command that is no dictionary, has no guess, or has a guess
\* without remaining changes no state and is answered with one
\* not-understood notice to its sender.
C24_MalformedCommandIsAnswered ==
    [][\A r \in Rooms :
          MalformedCommand(r)
          => SessionUnchanged /\ OnlyTextTo("text_not_understood", r, event'.user)]_vars

\* the step runs an event handler for a room that is in no dictionary
EventWithoutSession(r) ==
    /\ event'.name \in {"joined_room", "status", "text_message", "command"}
    /\ event'.room = r
    /\ NoSession(Cur, r)

\* C25: a joined, status, text or command event for a room without a
\* session sends nothing and changes no state.
C25_EventWithoutSessionIsDropped ==
    [][\A r \in Rooms : EventWithoutSession(r) => SessionUnchanged /\ out' = <<>>]_vars

\* C25 witness: a command that is no dictionary arrived for a room whose
\* session was closed
C25_Witness ==
    /\ event.name = "command" /\ event.cmd.shape = "opaque" /\ event.user # BotId
    /\ event.room \in created
    /\ NoSession(Cur, event.room)
    /\ out = <<>>

\* the step resolves the round of the last item of room r: an agreed guess
\* that ends the round, or a round timer of the room that fires
LastItemConsumed(r) ==
    /\ r \in DOMAIN images_per_room
    /\ Len(images_per_room[r]) = 1
    /\ \/ WinningGuess(r)
       \/ AgreedGuess(r) /\ event'.cmd.guess # SecretWord(r) /\ event'.cmd.remaining = 1
       \/ event'.name = "timer" /\ event'.timer.kind = "round" /\ event'.room = r

\* the positions of the effects of one kind in o
Positions(o, kinds) == {i \in DOMAIN o : o[i].kind \in kinds}

\* C28: the step that consumes the last item sends the final summary, with
\* the final score, to each player before the closing text, sets the room
\* read-only, removes both players from the room, and leaves the room in no
\* dictionary.
C28_LastRoundSummaryThenClose ==
    [][\A r \in Rooms :
          LastItemConsumed(r)
          => LET o == out'
                 closing == Positions(o, {"text_closing", "patch_readonly", "remove_user"})
             IN /\ \A p \in RosterIds(r) :
                       /\ \E i \in Positions(o, {"text_share"}) :
                             /\ o[i].to = p /\ o[i].room = r
                             /\ o[i].b = points_per_room[r] + Awarded(o, r)
                             /\ \A j \in closing : i < j
                       /\ \E j \in Positions(o, {"remove_user"}) : o[j].to = p /\ o[j].room = r
                /\ Positions(o, {"patch_readonly"}) # {}
                /\ NoSession(Cur', r)]_vars

\* C28 witness: the last round was won and the room was closed
C28_Witness ==
    /\ event.name = "command"
    /\ \E i \in DOMAIN out : out[i].kind = "text_result" /\ out[i].a = "WON"
    /\ Positions(out, {"text_share"}) # {}
    /\ Positions(out, {"remove_user"}) # {}
    /\ NoSession(Cur, event.room)

\* the step removes an item of room r and leaves at least one
AdvanceWithItemsLeft(r) ==
    /\ r \in DOMAIN images_per_room'
    /\ images_per_room'[r] # images_per_room[r]

\* C29: after a step that advances the round and leaves an item, both
\* players have message counter 0 and status "ready", and the history and
\* the submissions are empty.
C29_AdvanceResetsTheRound ==
    [][\A r \in DOMAIN images_per_room :
          AdvanceWithItemsLeft(r)
          => /\ \A i \in DOMAIN players_per_room'[r] :
                    /\ players_per_room'[r][i].msg_n = 0
                    /\ players_per_room'[r][i].status = "ready"
             /\ guesses_history'[r] = <<>>
             /\ guesses_per_room'[r] = EmptyDict]_vars

\* C29 witness: a lost round was the second advance of the room: the last
\* item is the current one and both players are reset
C29_Witness ==
    \E r \in DOMAIN images_per_room :
        /\ \E i \in DOMAIN out : out[i].kind = "text_result" /\ out[i].a = "LOST"
        /\ Sent(out, "text_next_image", r)
        /\ Len(images_per_room[r]) = 1
        /\ \A i \in DOMAIN players_per_room[r] :
               players_per_room[r][i].msg_n = 0 /\ players_per_room[r][i].status = "ready"
        /\ guesses_history[r] = <<>> /\ guesses_per_room[r] = EmptyDict

\* the started round timers of room r that were constructed when n items
\* were left
RoundTimersOf(s, r, n) ==
    {t \in LiveTimers(s) : t.kind = "round" /\ t.room = r /\ t.round = n}

\* C22: a step that changes the item sequence of a room removes exactly its
\* head item; a round timer advances only the round it was started for; and
\* when the next round begins, no submission and no started round timer of
\* the round before is left.
C22_RoundAdvanceIsSequential ==
    [][\A r \in DOMAIN images_per_room :
          LET n == Len(images_per_room[r])
              advanced == r \notin DOMAIN images_per_room'
                          \/ images_per_room'[r] # images_per_room[r]
          IN /\ (r \in DOMAIN images_per_room' /\ advanced)
                => images_per_room'[r] = Tail(images_per_room[r])
             /\ (advanced /\ event'.name = "timer" /\ event'.timer.kind = "round")
                => event'.timer.round = n
             /\ AdvanceWithItemsLeft(r)
                => /\ guesses_per_room'[r] = EmptyDict
                   /\ RoundTimersOf(Cur', r, n) = {}]_vars

\* everything the bot holds about room r: its entry in each dictionary and
\* its started timers
entry(d, r) == IF r \in DOMAIN d THEN <<d[r]>> ELSE <<>>
RoomState(s, r) ==
    [images |-> entry(s.images, r), players |-> entry(s.players, r),
     lastmsg |-> entry(s.lastmsg, r), guesses |-> entry(s.guesses, r),
     history |-> entry(s.history, r), points |-> entry(s.points, r),
     rtimers |-> entry(s.rtimers, r),
     threads |-> [t \in {x \in BagToSet(s.threads) : x.room = r} |-> s.threads[t]]]

\* C26: a handler or timer callback that runs for one room leaves the
\* roster, items, submissions, history, score and timers of every other
\* room as they are.
C26_OtherRoomsAreUntouched ==
    [][\A a, b \in RoomPair :
          (a # b /\ event'.room = a) => RoomState(Cur', b) = RoomState(Cur, b)]_vars

\* C26 witness: the departure timer of room 1 has closed room 1 while room 2
\* is in its second round with a pending submission and a departure timer
C26_Witness ==
    /\ event.name = "timer" /\ event.timer.kind = "left" /\ event.room = 1
    /\ NoSession(Cur, 1)
    /\ 2 \in DOMAIN images_per_room
    /\ Len(images_per_room[2]) = 2
    /\ guesses_per_room[2] # EmptyDict
    /\ DOMAIN timers_per_room[2].left_room # {}

\* C27: a round advance whose image patch fails still leaves the next item
\* at the head, no submission and a started round timer; a close whose
\* read-only patch or membership removal fails still leaves the room in no
\* dictionary.
C27_FailedEffectKeepsTheTransition ==
    [][\A r \in Rooms :
          /\ Sent(out', "patch_image_failed", r)
             => /\ r \in DOMAIN images_per_room'
                /\ images_per_room'[r] = Tail(images_per_room[r])
                /\ guesses_per_room'[r] = EmptyDict
                /\ timers_per_room'[r].round_timer.live
          /\ (Sent(out', "patch_readonly_failed", r) \/ Sent(out', "remove_user_failed", r))
             => NoSession(Cur', r)]_vars

\* room r is in every per-room dictionary
InEveryDict(s, r) ==
    /\ r \in DOMAIN s.images /\ r \in DOMAIN s.players /\ r \in DOMAIN s.lastmsg
    /\ r \in DOMAIN s.guesses /\ r \in DOMAIN s.history /\ r \in DOMAIN s.points
    /\ r \in DOMAIN s.rtimers

\* C30: after every handler a room is in all per-room dictionaries or in
\* none; a room enters them only in new_task_room and leaves them only in
\* close_game.
C30_SessionIsAllOrNothing ==
    [][\A r \in Rooms :
          /\ NoSession(Cur', r) \/ InEveryDict(Cur', r)
          /\ (NoSession(Cur, r) /\ ~ NoSession(Cur', r)) => event'.name = "new_task_room"
          /\ (~ NoSession(Cur, r) /\ NoSession(Cur', r)) => Sent(out', "text_closing", r)]_vars

\* the thread that takes the step: the handler thread or a Timer's thread
StepOfHandler(r) ==
    /\ event'.room = r
    /\ \/ event'.name \in {"new_task_room", "status", "command"}
       \/ event'.name = "wake" /\ event'.timer = HandlerThread
StepOfTimer(r) ==
    /\ event'.room = r
    /\ \/ event'.name = "timer"
       \/ event'.name = "wake" /\ event'.timer # HandlerThread

\* C21: no Timer thread takes a step on a room while an event handler of
\* that room is between its start and its end, and no event handler takes
\* a step on a room while a Timer callback of that room is between its
\* start and its end.
C21_HandlersAndTimersExclude ==
    [][\A r \in Rooms :
          /\ StepOfTimer(r)
             => \A p \in sleeping : ~ (p.room = r /\ p.thread = HandlerThread)
          /\ StepOfHandler(r)
             => \A p \in sleeping : ~ (p.room = r /\ p.thread # HandlerThread
                                        /\ p.thread # event'.timer)]_vars

\* the message counter of user u in the roster of room r, as a set: empty
\* when u is not in the roster
Counter(s, r, u) ==
    {s.players[r][i].msg_n : i \in {j \in DOMAIN s.players[r] : s.players[r][j].id = u}}
\* user u is in the roster of room r with status "ready"
ReadyPlayer(s, r, u) ==
    \E i \in DOMAIN s.players[r] : s.players[r][i].id = u /\ s.players[r][i].status = "ready"

ReadsHeadItem(r) ==
    /\ event'.room = r
    /\ r \in DOMAIN images_per_room
    /\ \/ event'.name = "command" /\ event'.user # BotId /\ event'.cmd.shape = "guess"
          /\ strip(event'.cmd.guess) # <<>>
       \/ event'.name = "status" /\ event'.type = "join"
       \/ event'.name = "timer" /\ event'.timer.kind = "round"
       \/ /\ event'.name = "wake"
          /\ \E p \in sleeping : p.thread = event'.timer /\ p.room = r /\ p.at = 541

\* C32: whenever a guess, a join or the start of a round advance is
\* processed for a room with a session, the room's item sequence is not
\* empty.
C32_HeadItemIsDefined ==
    [][\A r \in Rooms : ReadsHeadItem(r) => images_per_room[r] # <<>>]_vars

\* the words of a guess history
Words(history) == {history[i] : i \in DOMAIN history}

\* C33: an agreed guess of the secret word ends the round as won for every
\* value of remaining: the item is consumed and the result is announced;
\* and after every step the history of a room does not hold the secret
\* word of its current item.
C33_SecretWordAlwaysWins ==
    [][\A r \in Rooms :
          /\ (AgreedGuess(r) /\ event'.cmd.guess = SecretWord(r))
             => /\ r \notin DOMAIN images_per_room'
                   \/ images_per_room'[r] = Tail(images_per_room[r])
                /\ \E i \in DOMAIN out' : out'[i].kind = "text_result" /\ out'[i].a = "WON"
          /\ (r \in DOMAIN images_per_room' /\ images_per_room'[r] # <<>>)
             => images_per_room'[r][1][1] \notin Words(guesses_history'[r])]_vars

\* C35: a step changes the status of a player of a room only from "joined"
\* to "ready" and only when it advances the round of the room; and a
\* player with status "joined" has message counter 0.
C35_StatusOnlyBecomesReady ==
    [][\A r \in DOMAIN players_per_room :
          r \in DOMAIN players_per_room'
          => \A i \in DOMAIN players_per_room[r] \cap DOMAIN players_per_room'[r] :
                LET old == players_per_room[r][i]
                    new == players_per_room'[r][i]
                IN /\ old.status # new.status
                      => /\ old.status = "joined" /\ new.status = "ready"
                         /\ AdvanceWithItemsLeft(r)
                   /\ new.status = "joined" => new.msg_n = 0]_vars

\* C34: with timers that expire and no guess at all, every room that has a
\* session is in no dictionary some time later.
C34_IdleSessionIsDestroyed ==
    \A r \in Rooms : (r \in DOMAIN images_per_room) ~> NoSession(Cur, r)

\* C34 witness: the round timer of the last item has fired and the game is
\* over with no score
C34_Witness ==
    /\ event.name = "timer" /\ event.timer.kind = "round" /\ event.timer.round = 1
    /\ \E i \in DOMAIN out : out[i].kind = "text_share" /\ out[i].b = 0
    /\ NoSession(Cur, event.room)

====
